---- MODULE Spec2Model ----
(***************************************************************************)
(* Model of the user/session flow of 03backendSetup:                       *)
(*   controllers/user.controller.js  registerUser, loginUser, logoutUser,  *)
(*                                   refreshAcessToken,                    *)
(*                                   generateAccessAndRefreshTokens        *)
(*   models/user.models.js (src/unnamed/part_001)  userSchema, pre("save"),*)
(*                                   isPasswordCorrect, generateAccessToken,*)
(*                                   generateRefreshToken                  *)
(* Every request handler runs on the single-threaded event loop: the code  *)
(* between two awaits is one atomic step, and steps of different requests  *)
(* interleave at the awaits.  The synchronous prefix of a handler reads and *)
(* writes nothing shared, so it is taken together with the first store     *)
(* access it awaits.                                                       *)
(***************************************************************************)
EXTENDS Integers, Sequences, FiniteSets, TLC

\* number of requests that can be in flight at the same time
MaxCalls == 2

Calls == 1..MaxCalls

----------------------------------------------------------------------------
(* JavaScript values that travel as tokens, cookies and stored fields.     *)

Undefined == [t |-> "undefined", s |-> "", id |-> 0, claims |-> {}]
Null == [t |-> "null", s |-> "", id |-> 0, claims |-> {}]
Str(x) == [t |-> "str", s |-> x, id |-> 0, claims |-> {}]

\* history marker: no refresh token was issued for the user yet
NotIssued == [t |-> "none", s |-> "", id |-> 0, claims |-> {}]

\* a request field that was not supplied at all (undefined in req.body)
AbsentField == "<undefined>"

\* a stored field that holds no value: missing or null
Absent(v) == v.t \in {"undefined", "null"}

\* !value
Falsy(v) == v.t \in {"undefined", "null"} \/ v = Str("")

\* String(value), as res.cookie() applies it to a non-object value
CookieString(v) == IF v.t \in {"undefined", "null"} THEN Str(v.t) ELSE v

\* mutant of FalsyField: only the empty string counts as not supplied
FalsyFieldEmptyOnly(f) == f = ""

\* !field for a request body string
FalsyField(f) == f \in {AbsentField, ""}

ACCESS_TOKEN_SECRET == "ACCESS_TOKEN_SECRET"
REFRESH_TOKEN_SECRET == "REFRESH_TOKEN_SECRET"

\* jwt.sign(payload, secret, {expiresIn}): the signed token string
JwtSign(id, claims, secret) == [t |-> "jwt", s |-> secret, id |-> id, claims |-> claims]

\* the cookie a response sets: res.cookie(name, value, options)
Cookie(name, value, httpOnly, secure) ==
    [name |-> name, value |-> CookieString(value), httpOnly |-> httpOnly, secure |-> secure]

\* Jwt.verify(token, secret) returns the payload; it throws on anything
\* that is not a token signed with this secret (expiry is not modelled here)
JwtVerifies(tok, secret) == tok.t = "jwt" /\ tok.s = secret

----------------------------------------------------------------------------
(* bcryptjs: a hash is the plaintext it was made from and the number of    *)
(* times hashSync was applied on top of it (salts are abstracted).         *)

Plain(x) == [plain |-> x, rounds |-> 0]

\* bcryptjs.hashSync(value, 10)
HashSync(p) == [plain |-> p.plain, rounds |-> p.rounds + 1]

\* bcryptjs.compareSync(password, stored)
CompareSync(password, stored) == stored = HashSync(Plain(password))

\* userSchema.methods.isPasswordCorrect
isPasswordCorrect(doc, password) == CompareSync(password, doc.password)

\* userSchema.pre("save"): when the password is not modified next() is
\* called and, with no return, the hook goes on to hash the stored hash
\* again; that assignment happens one microtask after next() was called,
\* so whether it is part of the write that save() sends is a race
\* (lateAssignLands).
PreSavePassword(password, isModified, lateAssignLands) ==
    IF isModified \/ lateAssignLands THEN HashSync(password) ELSE password

\* what Jwt.verify(token, secret) returns for a token it accepts
JwtPayload(tok) == [id |-> tok.id, claims |-> tok.claims]

\* the jwt.sign call of generateAccessToken: the payload names _id, email,
\* username and fullname
SignAccessToken(id, doc) ==
    JwtSign(id, {"_id", "email", "username", "fullname"}, ACCESS_TOKEN_SECRET)

\* the jwt.sign call of generateRefreshToken: the payload names _id
SignRefreshToken(id, doc) == JwtSign(id, {"_id"}, REFRESH_TOKEN_SECRET)

\* userSchema.methods.generateAccessToken: jwt.sign(...) is evaluated and
\* its result dropped, the method has no return statement
generateAccessToken(id, doc) ==
    LET signed == SignAccessToken(id, doc)
    IN  Undefined

\* userSchema.methods.generateRefreshToken: same shape, no return statement
generateRefreshToken(id, doc) ==
    LET signed == SignRefreshToken(id, doc)
    IN  Undefined

----------------------------------------------------------------------------
(* Inputs.                                                                 *)

Passwords == {"pw", "qw"}

\* a Register request: the four body fields and the two uploaded files
RegisterInput(username, email, password, avatar, coverimage) ==
    [username |-> username, email |-> email, fullname |-> "Full Name",
     password |-> password, avatar |-> avatar, coverimage |-> coverimage]

\* the Register requests that are sent: a complete one, one with the same
\* email and one with the same username as it, two that differ from these
\* in letter case only, one without an avatar file, one with a password of
\* spaces and one without a password
RegisterInputs ==
    { RegisterInput("al", "al@x", "pw", "a.png", AbsentField),
      RegisterInput("bo", "al@x", "pw", "a.png", AbsentField),
      RegisterInput("al", "bo@x", "pw", "a.png", "c.png"),
      RegisterInput("AL", "bo@x", "pw", "a.png", AbsentField),
      RegisterInput("bo", "AL@X", "pw", "a.png", AbsentField),
      RegisterInput("bo", "bo@x", "pw", AbsentField, AbsentField),
      RegisterInput("al", "al@x", " ", "a.png", AbsentField),
      RegisterInput("al", "al@x", AbsentField, "a.png", AbsentField) }

\* the usernames Login is tried with: the username of the first user, the
\* username of a second user (registered in TwoUserSpec, unknown to the
\* store of SessionSpec), not supplied
LoginUsernames == {"al", "bo", AbsentField}

\* what a client can send as refreshToken cookie / body field: nothing, the
\* text a cookie carries for an undefined value, a token signed with the
\* refresh secret for _id 1, one for an _id no user has, and an unexpired
\* access token of user 1 (what the jwt.sign call of generateAccessToken
\* makes for that user)
TokenInputs ==
    { Undefined, Str("undefined"), JwtSign(1, {"_id"}, REFRESH_TOKEN_SECRET),
      JwtSign(2, {"_id"}, REFRESH_TOKEN_SECRET),
      JwtSign(1, {"_id", "email", "username", "fullname"}, ACCESS_TOKEN_SECRET) }

\* the forms in which a client holds a token a response gave it: the
\* value of the JSON body and the text of the cookie
Forms(v) == {v, CookieString(v)}

----------------------------------------------------------------------------
VARIABLES
    db,             \* the users collection: sequence of documents, _id = index
    calls,          \* the requests in flight, one record per slot
    issued,         \* history: per _id, the refresh token most recently
                    \* issued, whether it is live (no Logout since), the
                    \* tokens superseded by a later issue, the tokens
                    \* issued before the latest Logout, and whether one
                    \* Login or more than one has returned
    dropsUndefined, \* build: does the update cast drop {$set: {k: undefined}}
    proc            \* the process: the script it was started with, how far
                    \* that script has run, the state of the database
                    \* connection, whether the HTTP server is listening,
                    \* whether it ever was (history), and the exit

vars == <<db, calls, issued, dropsUndefined, proc>>

NoResp == [status |-> 0, message |-> "", accessToken |-> Undefined,
           refreshToken |-> Undefined, cookies |-> {}, cleared |-> {},
           hasUser |-> FALSE, userFields |-> {}, typed |-> FALSE]

NoDoc == [username |-> "", email |-> "", fullname |-> "", avatar |-> "",
          coverimage |-> "", password |-> Plain(""), refreshToken |-> Undefined]

NoHistory == [last |-> NotIssued, live |-> FALSE, superseded |-> {}, revoked |-> {},
              logins |-> 0]

\* a request slot; avatarUrl and coverimageUrl are what uploadOnCloudinary
\* answered; stages is history, the stages of registerUser the request has
\* run, and storeDown is history, whether the store was unavailable to a
\* Login or Refresh request; tags, wrote, storedAtReturn, queried and uploaded are
\* history about the request: what its token was when it arrived, whether
\* its save() changed a stored refresh token, the stored token when its
\* response was sent, whether it has sent a query to the users collection
\* and whether it has called uploadOnCloudinary
Idle == [op |-> "idle", pc |-> "idle", username |-> "", email |-> "",
         fullname |-> "", password |-> "", avatar |-> "", coverimage |-> "",
         tok |-> Undefined, uid |-> 0, snap |-> NoDoc,
         accessToken |-> Undefined, refreshToken |-> Undefined,
         tags |-> {}, wrote |-> FALSE, storedAtReturn |-> Undefined,
         avatarUrl |-> "", coverimageUrl |-> "",
         queried |-> FALSE, uploaded |-> FALSE,
         stages |-> << >>, storeDown |-> FALSE,
         resp |-> NoResp]

UserIds == DOMAIN db

\* new ApiError(status, message) reaches the error middleware; the inputs
\* of the request stay in the slot with the response
Fail(call, status, message) ==
    [call EXCEPT !.pc = "done", !.snap = NoDoc,
                 !.resp = [NoResp EXCEPT !.status = status, !.message = message,
                                         !.typed = TRUE]]

\* throw new Error(500, text), line 83: Error takes the message first,
\* so the error that leaves the handler is a plain Error whose message is
\* "500", with no statusCode
ThrowError(call) ==
    [call EXCEPT !.pc = "done", !.snap = NoDoc,
                 !.resp = [NoResp EXCEPT !.message = "500"]]

\* mutant of RefreshError: the catch block answers with a server error
RefreshErrorServerFault(message) ==
    [NoResp EXCEPT !.status = 500, !.message = message, !.typed = TRUE]

\* lines 172 and 210-212: throw new ApiError(401, error?.message || ...)
RefreshError(message) ==
    [NoResp EXCEPT !.status = 401, !.message = message, !.typed = TRUE]

\* the scripts a process is started with: the index.js that chains
\* app.listen on the promise of connectDB (part_001:96-104), and the
\* index.js of the README's modular approach, which calls connectDB and
\* then app.listen (part_000:552-565)
EntryPoints == {"index.js", "README Approach 2"}

\* a process that has not run its script yet
Starting(entry) ==
    [entry |-> entry, pc |-> "start", connect |-> "none",
     listening |-> FALSE, listened |-> FALSE, exited |-> FALSE, exitCode |-> 0]

\* the process of index.js once it serves requests
Serving ==
    [entry |-> "index.js", pc |-> "running", connect |-> "connected",
     listening |-> TRUE, listened |-> TRUE, exited |-> FALSE, exitCode |-> 0]

\* the store after construction: no users; the process serves requests
Init ==
    /\ db = << >>
    /\ calls = [c \in Calls |-> Idle]
    /\ issued = << >>
    /\ dropsUndefined \in BOOLEAN
    /\ proc = Serving

----------------------------------------------------------------------------
(* registerUser                                                            *)

\* the fields of a user document
UserFields == {"_id", "username", "email", "fullname", "avatar", "coverimage",
               "password", "refreshToken"}

\* .select("-password -refreshToken")
Selected == UserFields \ {"password", "refreshToken"}

\* String.prototype.toLowerCase(), and the schema option lowercase: true,
\* on the strings that are sent; a field that was not supplied stays so
Lower(s) ==
    CASE s = "AL" -> "al"
      [] s = "AL@X" -> "al@x"
      [] OTHER -> s

\* mutant of TrimsToEmpty: the field is compared without trim()
IsEmptyString(f) == f = ""

\* field?.trim() === ""
TrimsToEmpty(f) == f \in {"", " "}

\* mutant of MatchIds: the filter is compared as it was sent
MatchIdsExact(username, email) ==
    { i \in UserIds : db[i].username = username \/ db[i].email = email }

\* mutant of MatchIds: the filter names the username only
MatchIdsByUsername(username, email) ==
    { i \in UserIds : db[i].username = Lower(username) }

\* User.findOne({$or: [{username}, {email}]}): the _ids that match. The
\* filter is cast with the schema, whose setters (lowercase) run on it.
MatchIds(username, email) ==
    { i \in UserIds : db[i].username = Lower(username) \/ db[i].email = Lower(email) }

\* history: what the request is to the users the store holds when it
\* arrives
RegisterTags(username, email) ==
    {"username_taken" : u \in {i \in UserIds :
                db[i].username = username /\ db[i].email # email}}
    \cup {"email_taken" : u \in {i \in UserIds :
                db[i].email = email /\ db[i].username # username}}
    \cup {"case_variant" : u \in {i \in UserIds :
                \/ db[i].username # username /\ db[i].username = Lower(username)
                \/ db[i].email # email /\ db[i].email = Lower(email)}}
    \cup {"fresh" : u \in {i \in {0} : \A k \in UserIds :
                /\ db[k].username # Lower(username)
                /\ db[k].email # Lower(email)}}

\* mutant of registerUser: the avatar check comes before User.findOne
registerUserAvatarFirst(c, in) ==
    /\ calls[c].pc = "idle"
    /\ LET call == [Idle EXCEPT !.op = "register", !.username = in.username,
                                !.email = in.email, !.fullname = in.fullname,
                                !.password = in.password, !.avatar = in.avatar,
                                !.coverimage = in.coverimage,
                                !.tags = RegisterTags(in.username, in.email)]
           validated == [call EXCEPT !.stages = <<"validate">>]
           checked == [call EXCEPT !.stages = <<"validate", "avatar">>]
           asked == [call EXCEPT !.queried = TRUE,
                                 !.stages = <<"validate", "avatar", "lookup">>]
       IN  calls' = [calls EXCEPT ![c] =
               IF \E f \in {in.username, in.email, in.fullname, in.password} :
                      TrimsToEmpty(f)
               THEN Fail(validated, 400, "FullName, username, email, and password are required")
               ELSE IF FalsyField(in.avatar)
               THEN Fail(checked, 400, "Avatar image is required")
               ELSE IF MatchIds(in.username, in.email) # {}
               THEN Fail(asked, 409, "User with email or username already exists")
               ELSE [asked EXCEPT !.pc = "reg_upload"]]
    /\ UNCHANGED <<db, issued, dropsUndefined, proc>>

\* lines 19-40: the body is read, a field that trims to "" is rejected,
\* User.findOne answers, then the avatar check, then await uploadOnCloudinary
registerUser(c, in) ==
    /\ calls[c].pc = "idle"
    /\ LET call == [Idle EXCEPT !.op = "register", !.username = in.username,
                                !.email = in.email, !.fullname = in.fullname,
                                !.password = in.password, !.avatar = in.avatar,
                                !.coverimage = in.coverimage,
                                !.tags = RegisterTags(in.username, in.email)]
           validated == [call EXCEPT !.stages = <<"validate">>]
           asked == [call EXCEPT !.queried = TRUE, !.stages = <<"validate", "lookup">>]
           checked == [asked EXCEPT !.stages = <<"validate", "lookup", "avatar">>]
       IN  calls' = [calls EXCEPT ![c] =
               IF \E f \in {in.username, in.email, in.fullname, in.password} :
                      TrimsToEmpty(f)
               THEN Fail(validated, 400, "FullName, username, email, and password are required")
               ELSE IF MatchIds(in.username, in.email) # {}
               THEN Fail(asked, 409, "User with email or username already exists")
               ELSE IF FalsyField(in.avatar)
               THEN Fail(checked, 400, "Avatar image is required")
               ELSE [checked EXCEPT !.pc = "reg_upload"]]
    /\ UNCHANGED <<db, issued, dropsUndefined, proc>>

\* what uploadOnCloudinary answers when the upload failed
UploadNull == "<null>"

\* the url of the record uploadOnCloudinary answers with
Url(localPath) == "url:" \o localPath

\* lines 40-41: uploadOnCloudinary answers for the avatar and, when a cover
\* image was sent, for the cover image, each time with the stored file's
\* record or with null. The store is not touched between the two awaits.
RegisterUpload(c) ==
    /\ calls[c].pc = "reg_upload"
    /\ \E avatarStored \in BOOLEAN, coverStored \in BOOLEAN :
           /\ FalsyField(calls[c].coverimage) => coverStored
           /\ calls' = [calls EXCEPT ![c] =
                  [calls[c] EXCEPT
                      !.pc = "reg_create", !.uploaded = TRUE,
                      !.stages = Append(@, "upload"),
                      !.avatarUrl = IF avatarStored THEN Url(calls[c].avatar)
                                    ELSE UploadNull,
                      !.coverimageUrl =
                          IF FalsyField(calls[c].coverimage) THEN ""
                          ELSE IF coverStored THEN Url(calls[c].coverimage)
                          ELSE UploadNull]]
    /\ UNCHANGED <<db, issued, dropsUndefined, proc>>

\* mutant of CreateRejects: nothing but the unique indexes rejects
CreateRejectsUniqueOnly(call) ==
    \E i \in UserIds : \/ db[i].username = Lower(call.username)
                       \/ db[i].email = Lower(call.email)

\* mutant of CreateRejects: the collection has no unique index
CreateRejectsRequiredOnly(call) ==
    \/ call.avatarUrl = UploadNull
    \/ \E f \in {call.username, call.email, call.fullname, call.password} : f = AbsentField

\* what makes the try block of lines 44-52 throw: avatar.url on null,
\* username.toLowerCase() on undefined, the schema's required validators
\* and the unique indexes on username and email (part_001:5-52)
CreateRejects(call) ==
    \/ call.avatarUrl = UploadNull
    \/ \E f \in {call.username, call.email, call.fullname, call.password} : f = AbsentField
    \/ \E i \in UserIds : \/ db[i].username = Lower(call.username)
                          \/ db[i].email = Lower(call.email)

\* mutant of NewDoc: username and email are stored as they were sent
NewDocAsSent(call) ==
    [username |-> call.username, email |-> call.email,
     fullname |-> call.fullname,
     avatar |-> call.avatarUrl,
     coverimage |-> IF call.coverimageUrl = UploadNull THEN "" ELSE call.coverimageUrl,
     password |-> PreSavePassword(Plain(call.password), TRUE, FALSE),
     refreshToken |-> Undefined]

\* the document User.create inserts: coverimage?.url || "", the schema
\* lowercases username and email, pre("save") hashes the new password
NewDoc(call) ==
    [username |-> Lower(call.username), email |-> Lower(call.email),
     fullname |-> call.fullname,
     avatar |-> call.avatarUrl,
     coverimage |-> IF call.coverimageUrl = UploadNull THEN "" ELSE call.coverimageUrl,
     password |-> PreSavePassword(Plain(call.password), TRUE, FALSE),
     refreshToken |-> Undefined]

\* lines 43-60: User.create inside try/catch; the catch answers 400 for
\* whatever was thrown
RegisterCreate(c) ==
    /\ calls[c].pc = "reg_create"
    /\ LET call == [calls[c] EXCEPT !.stages = Append(@, "create")]
       IN  IF CreateRejects(call)
           THEN /\ calls' = [calls EXCEPT ![c] =
                       Fail(call, 400, "Validation error while creating user")]
                /\ UNCHANGED <<db, issued>>
           ELSE /\ db' = Append(db, NewDoc(call))
                /\ issued' = Append(issued, NoHistory)
                /\ calls' = [calls EXCEPT ![c] =
                       [call EXCEPT !.pc = "reg_findById", !.uid = Len(db) + 1]]
    /\ UNCHANGED <<dropsUndefined, proc>>

\* lines 62-67: User.findById(user._id).select("-password -refreshToken")
\* answers; the response carries the status and a text, not createdUser
RegisterRespond(c) ==
    /\ calls[c].pc = "reg_findById"
    /\ calls' = [calls EXCEPT ![c] =
           [calls[c] EXCEPT !.pc = "done",
               !.resp = [NoResp EXCEPT !.status = 200,
                                       !.message = "User created successfully"]]]
    /\ UNCHANGED <<db, issued, dropsUndefined, proc>>

----------------------------------------------------------------------------
(* generateAccessAndRefreshTokens(userId), called by loginUser and by      *)
(* refreshAcessToken                                                       *)

\* lines 72, 77 and 81-84 with the store unavailable: User.findById or
\* user.save() rejects and the catch throws new Error(500, ...). In a Login
\* it leaves the handler; in a Refresh the catch of line 210 wraps its
\* message.
generateAccessAndRefreshTokensStoreDown(c) ==
    /\ calls[c].pc \in {"gen_findById", "gen_save"}
    /\ LET call == [calls[c] EXCEPT !.storeDown = TRUE]
       IN  calls' = [calls EXCEPT ![c] =
               IF call.op = "login"
               THEN ThrowError(call)
               ELSE [call EXCEPT !.pc = "done", !.resp = RefreshError("500")]]
    /\ UNCHANGED <<db, issued, dropsUndefined, proc>>

\* history: a refresh token was issued for the user
Issue(h, refreshToken) ==
    [h EXCEPT !.last = refreshToken, !.live = TRUE,
              !.superseded = IF h.last = NotIssued THEN @ ELSE @ \cup {h.last}]

\* lines 72-77 up to the await of save(): User.findById answers, both
\* tokens are generated, user.refreshToken is assigned and save() is called
generateAccessAndRefreshTokens(c) ==
    /\ calls[c].pc = "gen_findById"
    /\ LET id == calls[c].uid
           accessToken == generateAccessToken(id, db[id])
           refreshToken == generateRefreshToken(id, db[id])
       IN  /\ calls' = [calls EXCEPT ![c] =
                  [calls[c] EXCEPT !.pc = "gen_save", !.snap = db[id],
                                   !.accessToken = accessToken,
                                   !.refreshToken = refreshToken]]
           /\ issued' = [issued EXCEPT ![id] = Issue(@, refreshToken)]
    /\ UNCHANGED <<db, dropsUndefined, proc>>

\* mutant of SavedDoc: the String schema type casts the assigned value, so
\* an undefined token is stored as the text "undefined"
SavedDocCastsToString(stored, loaded, refreshToken, lateAssignLands) ==
    [stored EXCEPT !.refreshToken = CookieString(refreshToken)]

\* what user.save({validateBeforeSave: false}) writes: only the paths of
\* the loaded document that were modified are sent to the store
SavedDoc(stored, loaded, refreshToken, lateAssignLands) ==
    LET password == PreSavePassword(loaded.password, FALSE, lateAssignLands)
    IN  [stored EXCEPT
            !.refreshToken = IF refreshToken = loaded.refreshToken THEN @ ELSE refreshToken,
            !.password = IF password = loaded.password THEN @ ELSE password]

\* lines 77-79: the write of save() reaches the store and the pair is
\* returned to the caller
generateAccessAndRefreshTokensSave(c) ==
    /\ calls[c].pc = "gen_save"
    /\ \E lateAssignLands \in BOOLEAN :
           LET id == calls[c].uid
               saved == SavedDoc(db[id], calls[c].snap, calls[c].refreshToken, lateAssignLands)
           IN  /\ db' = [db EXCEPT ![id] = saved]
               /\ calls' = [calls EXCEPT ![c] =
                      [calls[c] EXCEPT
                          !.pc = IF calls[c].op = "login"
                                 THEN "login_findById" ELSE "refresh_generated",
                          !.snap = NoDoc,
                          !.wrote = (saved.refreshToken # db[id].refreshToken)]]
    /\ UNCHANGED <<issued, dropsUndefined, proc>>

----------------------------------------------------------------------------
(* loginUser                                                               *)

\* User.findOne({$or: [{username: username || undefined},
\*                     {email: email || undefined}]})
LoginMatchIds(username, email) ==
    { i \in UserIds : \/ (~FalsyField(username) /\ db[i].username = username)
                      \/ (~FalsyField(email) /\ db[i].email = email) }

\* lines 96-120: the body is read, username or email is required,
\* User.findOne answers, no user is rejected, the password is checked on
\* the document that was found, generateAccessAndRefreshTokens is called
loginUser(c, username, email, password) ==
    /\ calls[c].pc = "idle"
    /\ LET call == [Idle EXCEPT !.op = "login", !.username = username,
                                !.email = email, !.password = password]
           found == LoginMatchIds(username, email)
           asked == [call EXCEPT !.queried = TRUE]
       IN  IF FalsyField(username) /\ FalsyField(email)
           THEN calls' = [calls EXCEPT ![c] =
                    Fail(call, 400, "username or Email is requird")]
           ELSE IF found = {}
           THEN calls' = [calls EXCEPT ![c] =
                    Fail(asked, 404, "user does not exists")]
           ELSE \E id \in found :
                    calls' = [calls EXCEPT ![c] =
                        IF ~isPasswordCorrect(db[id], password)
                        THEN Fail(asked, 404, "password Incorrect")
                        ELSE [asked EXCEPT !.pc = "gen_findById", !.uid = id]]
    /\ UNCHANGED <<db, issued, dropsUndefined, proc>>

\* lines 122-143: User.findById(...).select("-password -refreshToken")
\* answers, the two cookies are set and the response is sent
LoginRespond(c) ==
    /\ calls[c].pc = "login_findById"
    /\ issued' = [issued EXCEPT ![calls[c].uid].logins = IF @ < 2 THEN @ + 1 ELSE @]
    /\ calls' = [calls EXCEPT ![c] =
           [calls[c] EXCEPT !.pc = "done",
               !.storedAtReturn = db[calls[c].uid].refreshToken,
               !.resp = [NoResp EXCEPT
                   !.status = 200,
                   !.message = "user Logged in successfully",
                   !.hasUser = TRUE,
                   !.userFields = Selected,
                   !.accessToken = calls[c].accessToken,
                   !.refreshToken = calls[c].refreshToken,
                   !.cookies = { Cookie("accessToken", calls[c].accessToken, TRUE, TRUE),
                                 Cookie("refreshToken", calls[c].refreshToken, TRUE, TRUE) }]]]
    /\ UNCHANGED <<db, dropsUndefined, proc>>

----------------------------------------------------------------------------
(* logoutUser                                                              *)

\* mutant of LogoutUpdate: the update sets the text "undefined"
LogoutUpdateSetsText(store, id, drops) ==
    [store EXCEPT ![id].refreshToken = Str("undefined")]

\* mutant of LogoutUpdate: the update is applied without the _id filter
LogoutUpdateEveryUser(store, id, drops) ==
    [i \in DOMAIN store |-> [store[i] EXCEPT !.refreshToken = Null]]

\* User.findByIdAndUpdate(id, {$set: {refreshToken: undefined}}): the
\* update cast either drops the undefined key, which leaves an update that
\* sets nothing, or sends it, and the store then holds null
LogoutUpdate(store, id, drops) ==
    IF drops THEN store ELSE [store EXCEPT ![id].refreshToken = Null]

\* history: the user logged out; the tokens issued so far and the stored
\* one are the tokens issued before the latest Logout
Revoke(h, stored) ==
    [h EXCEPT !.live = FALSE,
              !.revoked = @ \cup h.superseded
                            \cup (IF h.last = NotIssued THEN {} ELSE {h.last})
                            \cup (IF Absent(stored) THEN {} ELSE {stored})]

\* lines 146-167; req.user is the user the auth middleware resolved
logoutUser(c, id) ==
    /\ calls[c].pc = "idle"
    /\ id \in UserIds
    /\ db' = LogoutUpdate(db, id, dropsUndefined)
    /\ issued' = [issued EXCEPT ![id] = Revoke(@, db[id].refreshToken)]
    /\ calls' = [calls EXCEPT ![c] =
           [Idle EXCEPT !.op = "logout", !.pc = "done", !.uid = id,
               !.storedAtReturn = db'[id].refreshToken,
               !.resp = [NoResp EXCEPT !.status = 200, !.message = "user logged out",
                                       !.cleared = {"accessToken", "refreshToken"}]]]
    /\ UNCHANGED <<dropsUndefined, proc>>

----------------------------------------------------------------------------
(* refreshAcessToken                                                       *)

\* line 171: if (incomingRefreshToken) throw new ApiError(401, ...)
RefreshGuardRejects(tok) == ~Falsy(tok)

\* line 187: incomingRefreshToken !== user?.refreshToken
RefreshTokenMismatch(tok, doc) == tok # doc.refreshToken

\* mutant of RefreshRejection: the guard rejects a missing token and the
\* comparison with the stored token is left out
RefreshRejectionSignatureOnly(tok, store) ==
    IF Falsy(tok) THEN "unauthorized request"
    ELSE IF ~JwtVerifies(tok, REFRESH_TOKEN_SECRET) THEN "jwt malformed"
    ELSE IF tok.id \notin DOMAIN store THEN "invalid refresh token"
    ELSE ""

\* mutant of RefreshRejection: the guard rejects a missing token and
\* Jwt.verify accepts a token signed with either secret
RefreshRejectionAnySecret(tok, store) ==
    IF Falsy(tok) THEN "unauthorized request"
    ELSE IF tok.t # "jwt" THEN "jwt malformed"
    ELSE IF tok.id \notin DOMAIN store THEN "invalid refresh token"
    ELSE IF RefreshTokenMismatch(tok, store[tok.id]) THEN "refreshed token is either expired"
    ELSE ""

\* lines 170-189: the message of the rejection the checks of the handler
\* end in, "" when the token gets past all of them. Jwt.verify is
\* synchronous; what it throws, and the two ApiErrors thrown inside the
\* try block, are caught at line 210.
RefreshRejection(tok, store) ==
    IF RefreshGuardRejects(tok) THEN "unauthorized request"
    ELSE IF ~JwtVerifies(tok, REFRESH_TOKEN_SECRET) THEN "jwt must be provided"
    ELSE IF tok.id \notin DOMAIN store THEN "invalid refresh token"
    ELSE IF RefreshTokenMismatch(tok, store[tok.id]) THEN "refreshed token is either expired"
    ELSE ""

\* history: what the presented token is to the users when the request
\* arrives
RefreshTags(tok) ==
    {"current" : u \in {i \in UserIds : issued[i].live /\ tok \in Forms(issued[i].last)}}
    \cup {"superseded" : u \in {i \in UserIds :
                \E x \in issued[i].superseded : tok \in Forms(x)}}
    \cup {"relogin" : u \in {i \in UserIds :
                issued[i].logins = 2 /\ \E x \in issued[i].superseded : tok \in Forms(x)}}
    \cup {"revoked" : u \in {i \in UserIds :
                ~issued[i].live /\ \E x \in issued[i].revoked : tok \in Forms(x)}}
    \cup {"matches" : u \in {i \in UserIds :
                /\ JwtVerifies(tok, REFRESH_TOKEN_SECRET)
                /\ tok.id = i
                /\ tok = db[i].refreshToken}}

\* line 196 reads resposeOfRefresh, which no scope of the module declares
ResposeOfRefreshDeclared == FALSE

\* lines 198-208: the response of a Refresh that got this far; the cookies
\* are set without options, the second under the name newRefreshToken
RefreshResponse(accessToken, newRefreshToken) ==
    [NoResp EXCEPT
        !.status = 200,
        !.message = "accessToken refreshed succesfully",
        !.accessToken = accessToken,
        !.refreshToken = newRefreshToken,
        !.cookies = { Cookie("accessToken", accessToken, FALSE, FALSE),
                      Cookie("newRefreshToken", newRefreshToken, FALSE, FALSE) }]

\* One step of the handler for the request in slot c. storeDown: the store
\* is unavailable while the request is handled.
\*   idle:               lines 170-195, the checks, then the call of
\*                       generateAccessAndRefreshTokens; what User.findById
\*                       throws is caught at line 210
\*   refresh_generated:  line 195 destructures newRefreshToken, which the
\*                       pair does not have; line 196 reads the undeclared
\*                       resposeOfRefresh, the ReferenceError is caught at
\*                       line 210
RefreshStep(c, storeDown) ==
    /\ IF calls[c].pc = "idle"
       THEN \E tok \in TokenInputs :
               LET rejection == RefreshRejection(tok, db)
                   beforeStore == rejection \in
                                    {"unauthorized request", "jwt must be provided"}
                   call == [Idle EXCEPT !.op = "refresh", !.tok = tok,
                                       !.tags = RefreshTags(tok),
                                       !.storeDown = storeDown,
                                       !.queried = ~beforeStore]
               IN  calls' = [calls EXCEPT ![c] =
                       IF beforeStore
                       THEN [call EXCEPT !.pc = "done", !.resp = RefreshError(rejection)]
                       ELSE IF storeDown
                       THEN [call EXCEPT !.pc = "done",
                                         !.resp = RefreshError("store unavailable")]
                       ELSE IF rejection # ""
                       THEN [call EXCEPT !.pc = "done", !.resp = RefreshError(rejection)]
                       ELSE [call EXCEPT !.pc = "gen_findById", !.uid = tok.id]]
       ELSE IF calls[c].pc = "refresh_generated"
       THEN calls' = [calls EXCEPT ![c] =
               [calls[c] EXCEPT !.pc = "done",
                   !.resp = IF ResposeOfRefreshDeclared
                            THEN RefreshResponse(calls[c].accessToken, Undefined)
                            ELSE RefreshError("resposeOfRefresh is not defined")]]
       ELSE FALSE
    /\ UNCHANGED <<db, issued, dropsUndefined, proc>>

\* the handler with the store available
refreshAcessToken(c) == RefreshStep(c, FALSE)

\* a Refresh request that arrives while the store is unavailable
refreshAcessTokenStoreDown(c) == calls[c].pc = "idle" /\ RefreshStep(c, TRUE)

----------------------------------------------------------------------------
\* the response has been delivered; the slot takes the next request
Complete(c) ==
    /\ calls[c].pc = "done"
    /\ calls' = [calls EXCEPT ![c] = Idle]
    /\ UNCHANGED <<db, issued, dropsUndefined, proc>>

\* the requests of the session flow
SessionStep(c) ==
    \/ \E username \in LoginUsernames, password \in Passwords :
           loginUser(c, username, AbsentField, password)
    \/ generateAccessAndRefreshTokens(c)
    \/ generateAccessAndRefreshTokensSave(c)
    \/ LoginRespond(c)
    \/ \E id \in UserIds : logoutUser(c, id)
    \/ refreshAcessToken(c)
    \/ Complete(c)

\* the requests of registration
RegisterStep(c) ==
    \/ \E in \in RegisterInputs : registerUser(c, in)
    \/ RegisterUpload(c)
    \/ RegisterCreate(c)
    \/ RegisterRespond(c)

Next == \E c \in Calls : RegisterStep(c) \/ SessionStep(c)

Spec == Init /\ [][Next]_vars

\* Registration on its own: Register requests arrive, run and complete
RegisterNext == \E c \in Calls : RegisterStep(c) \/ Complete(c)

RegisterSpec == Init /\ [][RegisterNext]_vars

\* The session flow on its own: the store holds the user that
\* registerUser created for username al with password pw, the state Spec
\* is in after registerUser, RegisterUpload, RegisterCreate, RegisterRespond
\* and Complete.
SessionInit ==
    /\ db = << NewDoc([Idle EXCEPT !.username = "al", !.email = "al@x",
                                   !.fullname = "Full Name", !.password = "pw",
                                   !.avatar = "a.png",
                                   !.avatarUrl = Url("a.png")]) >>
    /\ calls = [c \in Calls |-> Idle]
    /\ issued = << NoHistory >>
    /\ dropsUndefined \in BOOLEAN
    /\ proc = Serving

SessionNext == \E c \in Calls : SessionStep(c)

SessionSpec == SessionInit /\ [][SessionNext]_vars

\* The session flow with a store that can be unavailable to a request
FaultNext ==
    \E c \in Calls : \/ SessionStep(c)
                     \/ generateAccessAndRefreshTokensStoreDown(c)
                     \/ refreshAcessTokenStoreDown(c)

FaultSpec == SessionInit /\ [][FaultNext]_vars

\* The session flow with two users in the store: the records that
\* registerUser created for AL / bo@x and then for bo / al@x, a state Spec
\* reaches by two registrations.
TwoUserDocs ==
    << NewDoc([Idle EXCEPT !.username = "AL", !.email = "bo@x",
                           !.fullname = "Full Name", !.password = "pw",
                           !.avatar = "a.png", !.avatarUrl = Url("a.png")]),
       NewDoc([Idle EXCEPT !.username = "bo", !.email = "al@x",
                           !.fullname = "Full Name", !.password = "pw",
                           !.avatar = "a.png", !.avatarUrl = Url("a.png")]) >>

TwoUserInit ==
    /\ db = TwoUserDocs
    /\ calls = [c \in Calls |-> Idle]
    /\ issued = << NoHistory, NoHistory >>
    /\ dropsUndefined \in BOOLEAN
    /\ proc = Serving

TwoUserSpec == TwoUserInit /\ [][SessionNext]_vars

----------------------------------------------------------------------------
(* Process start: index.js and db/index.js                                 *)

\* the top level of the script runs to its end: connectDB() is called and
\* runs up to its await of mongoose.connect. index.js registers the then
\* and catch callbacks on the promise it got; the script of the README
\* goes on to call app.listen.
main ==
    /\ proc.pc = "start"
    /\ proc' = [proc EXCEPT
                   !.pc = "running",
                   !.connect = "pending",
                   !.listening = (proc.entry = "README Approach 2"),
                   !.listened = (proc.entry = "README Approach 2")]
    /\ UNCHANGED <<db, calls, issued, dropsUndefined>>

\* db/index.js lines 8-9: mongoose.connect resolves, connectDB logs the
\* host and its promise is fulfilled
connectDBConnected ==
    /\ ~proc.exited
    /\ proc.connect = "pending"
    /\ proc' = [proc EXCEPT !.connect = "connected"]
    /\ UNCHANGED <<db, calls, issued, dropsUndefined>>

\* db/index.js lines 10-13: mongoose.connect rejects, the catch block logs
\* the message and calls process.exit(1); the promise of connectDB is
\* never settled and a listening server goes down with the process
connectDBFailed ==
    /\ ~proc.exited
    /\ proc.connect = "pending"
    /\ proc' = [proc EXCEPT !.connect = "failed", !.pc = "exited",
                            !.listening = FALSE,
                            !.exited = TRUE, !.exitCode = 1]
    /\ UNCHANGED <<db, calls, issued, dropsUndefined>>

\* index.js lines 97-101: the then callback of connectDB() calls
\* app.listen
appListen ==
    /\ ~proc.exited
    /\ proc.entry = "index.js"
    /\ proc.connect = "connected"
    /\ ~proc.listening
    /\ proc' = [proc EXCEPT !.listening = TRUE, !.listened = TRUE]
    /\ UNCHANGED <<db, calls, issued, dropsUndefined>>

\* the processes that are started: one of the two scripts, an empty store
StartupInit ==
    /\ db = << >>
    /\ calls = [c \in Calls |-> Idle]
    /\ issued = << >>
    /\ dropsUndefined \in BOOLEAN
    /\ proc \in {Starting(entry) : entry \in EntryPoints}

\* requests reach the routes of index.js once its server listens
Listening == proc.entry = "index.js" /\ proc.listening /\ ~proc.exited

StartupNext ==
    \/ main
    \/ connectDBConnected
    \/ connectDBFailed
    \/ appListen
    \/ \E c \in Calls : Listening /\ (RegisterStep(c) \/ Complete(c))

StartupSpec == StartupInit /\ [][StartupNext]_vars

----------------------------------------------------------------------------
(* Properties of the session flow, checked under SessionSpec.              *)

Finished(c, op) == calls[c].op = op /\ calls[c].pc = "done"

\* C1: for every registered user, in every reachable state, Login with the
\* user's username and the password given at registration succeeds and
\* returns a user view with an access token and a refresh token that are
\* both present.
C1_LoginReturnsBothTokens ==
    \A c \in Calls :
        ( /\ Finished(c, "login")
          /\ \E u \in UserIds : /\ db[u].username = calls[c].username
                                 /\ db[u].password.plain = calls[c].password )
        => /\ calls[c].resp.status = 200
           /\ calls[c].resp.hasUser
           /\ ~Falsy(calls[c].resp.accessToken)
           /\ ~Falsy(calls[c].resp.refreshToken)

\* C2: a Refresh whose token verifies and equals the token stored on the
\* user's record succeeds and returns two new tokens, and a Refresh is
\* rejected as carrying no token only when no token was presented.
C2_RefreshAcceptsStoredToken ==
    \A c \in Calls :
        Finished(c, "refresh")
        => /\ "matches" \in calls[c].tags
                => /\ calls[c].resp.status = 200
                   /\ ~Falsy(calls[c].resp.accessToken)
                   /\ ~Falsy(calls[c].resp.refreshToken)
           /\ calls[c].resp.message = "unauthorized request" => Falsy(calls[c].tok)

\* C3: of two Refresh calls that present the same refresh token, the one
\* the user holds from the latest Login and that no Refresh or Logout has
\* invalidated, exactly one succeeds and the other fails with 401.
C3_ExactlyOneRefreshWins ==
    \A c1, c2 \in Calls :
        ( /\ c1 # c2
          /\ Finished(c1, "refresh") /\ Finished(c2, "refresh")
          /\ calls[c1].tok = calls[c2].tok
          /\ "current" \in calls[c1].tags /\ "current" \in calls[c2].tags )
        => \/ calls[c1].resp.status = 200 /\ calls[c2].resp.status = 401
           \/ calls[c1].resp.status = 401 /\ calls[c2].resp.status = 200

\* C5: after Logout of a user, a Refresh that presents a refresh token
\* issued to that user before the Logout (the stored one included) fails
\* with Unauthenticated (401).
C5_RefreshAfterLogoutRejected ==
    \A c \in Calls :
        (Finished(c, "refresh") /\ "revoked" \in calls[c].tags)
        => calls[c].resp.status = 401

C5_Witness ==
    \E c \in Calls :
        /\ Finished(c, "refresh") /\ "revoked" \in calls[c].tags
        /\ calls[c].resp.status = 401
        /\ \E u \in UserIds : ~issued[u].live /\ issued[u].revoked # {}

C7_StoredIsLatestIssued ==
    \A u \in UserIds :
        Absent(db[u].refreshToken) \/ db[u].refreshToken = issued[u].last

C7_Witness ==
    \E u \in UserIds, c1, c2 \in Calls :
        /\ Finished(c1, "login") /\ calls[c1].resp.status = 200 /\ calls[c1].uid = u
        /\ calls[c2].op = "login" /\ calls[c2].pc = "login_findById" /\ calls[c2].uid = u
        /\ issued[u].superseded # {}
        /\ Absent(db[u].refreshToken)

\* C8: when Login succeeds, the refresh token stored on the user's record
\* at the moment the response is sent is present and equal to the refresh
\* token the response returns.
C8_LoginStoresReturnedToken ==
    \A c \in Calls :
        (Finished(c, "login") /\ calls[c].resp.status = 200)
        => /\ ~Absent(calls[c].storedAtReturn)
           /\ calls[c].storedAtReturn = calls[c].resp.refreshToken

\* the tokens a Refresh arriving now would let past its checks for user u
Accepted(u) ==
    { t \in TokenInputs \cup UNION {Forms(x) : x \in issued[u].superseded \cup {issued[u].last}} :
        RefreshRejection(t, db) = "" /\ t.id = u }

\* C9: in every reachable state Refresh accepts at most one refresh token
\* value per user, the stored one, and once the user has logged in again
\* the token of the earlier Login is not accepted.
C9_SingleAcceptedToken ==
    \A u \in UserIds :
        /\ Cardinality(Accepted(u)) <= 1
        /\ \A t \in Accepted(u) : t = db[u].refreshToken
        /\ \A x \in issued[u].superseded :
               \A t \in Forms(x) : RefreshRejection(t, db) # ""

C9_Witness ==
    \E c \in Calls, u \in UserIds :
        /\ Finished(c, "refresh") /\ "relogin" \in calls[c].tags
        /\ calls[c].resp.status = 401
        /\ issued[u].logins = 2 /\ issued[u].live

\* C10: a Refresh call that returns a failure has not changed the stored
\* refresh token of any user.
C10_FailedRefreshWritesNothing ==
    \A c \in Calls :
        (Finished(c, "refresh") /\ calls[c].resp.status # 200) => ~calls[c].wrote

C10_Witness ==
    \E c \in Calls :
        /\ Finished(c, "refresh") /\ calls[c].resp.status = 401
        /\ calls[c].tok = JwtSign(1, {"_id"}, REFRESH_TOKEN_SECRET)
        /\ 1 \in UserIds

\* C11: a Login whose identifier matches no user fails with NotFound (404),
\* a Login with an existing user's identifier and another password than the
\* user's fails with a kind of failure that is not NotFound, and neither
\* has had tokens issued or has changed a stored refresh token.
C11_LoginFailuresAreDistinctKinds ==
    \A c \in Calls :
        Finished(c, "login")
        => /\ ( /\ ~FalsyField(calls[c].username)
                /\ LoginMatchIds(calls[c].username, calls[c].email) = {} )
              => /\ calls[c].resp.status = 404
                 /\ Falsy(calls[c].resp.refreshToken) /\ ~calls[c].wrote
           /\ ( \E u \in UserIds : /\ db[u].username = calls[c].username
                                    /\ db[u].password.plain # calls[c].password )
              => /\ calls[c].resp.status \notin {200, 404}
                 /\ Falsy(calls[c].resp.refreshToken) /\ ~calls[c].wrote

\* C12: a Login request with neither a username nor an email is answered
\* with ValidationError (400) in the step that reads it, before any query
\* is sent to the users collection, and the step changes no stored state.
C12_LoginRequiresIdentifier ==
    [][\A c \in Calls :
          ( /\ calls[c].pc = "idle"
            /\ calls'[c].op = "login"
            /\ calls'[c].username \in {AbsentField, ""}
            /\ calls'[c].email \in {AbsentField, ""} )
          => /\ calls'[c].pc = "done"
             /\ calls'[c].resp.status = 400
             /\ ~calls'[c].queried
             /\ db' = db /\ issued' = issued]_vars

C12_Witness ==
    \E c \in Calls :
        /\ Finished(c, "login")
        /\ calls[c].username = AbsentField /\ calls[c].email = AbsentField
        /\ calls[c].resp.status = 400
        /\ ~calls[c].queried

\* C13: every Refresh that fails, whether no token was presented, the
\* token does not verify, its _id matches no user or it differs from the
\* stored token, fails with Unauthenticated (401) and no other status.
C13_RefreshFailuresAreUnauthenticated ==
    \A c \in Calls :
        (Finished(c, "refresh") /\ calls[c].resp.status # 200)
        => calls[c].resp.status = 401

C13_Witness ==
    \E c1, c2 \in Calls :
        /\ Finished(c1, "refresh") /\ Falsy(calls[c1].tok)
        /\ calls[c1].resp.status = 401
        /\ Finished(c2, "refresh") /\ calls[c2].tok.t = "jwt"
        /\ calls[c2].tok.id \notin UserIds
        /\ calls[c2].resp.status = 401

----------------------------------------------------------------------------
(* Properties of registration, checked under RegisterSpec.                 *)

\* the four body fields of the request in slot c
BodyFields(call) == {call.username, call.email, call.fullname, call.password}

\* every body field was supplied and has a character that is not a space
CompleteBody(call) == BodyFields(call) \cap {AbsentField, "", " "} = {}

\* some user of the store has the username or the email of the request,
\* letter case aside
Taken(call) ==
    \E u \in UserIds : \/ db[u].username = Lower(call.username)
                       \/ db[u].email = Lower(call.email)

\* C14: a Register with a complete body and an avatar that was uploaded
\* fails only when a user with its username or email exists, and a
\* Register that succeeded has created one record and its response carries
\* a view of the created user without password and refreshToken.
C14_RegisterReturnsCreatedUser ==
    \A c \in Calls :
        Finished(c, "register")
        => /\ ( /\ CompleteBody(calls[c])
                /\ calls[c].uploaded /\ calls[c].avatarUrl # UploadNull
                /\ calls[c].resp.status # 200 )
              => Taken(calls[c])
           /\ calls[c].resp.status = 200
              => /\ calls[c].uid \in UserIds
                 /\ db[calls[c].uid].username = Lower(calls[c].username)
                 /\ db[calls[c].uid].email = Lower(calls[c].email)
                 /\ calls[c].resp.hasUser
                 /\ calls[c].resp.userFields # {}
                 /\ calls[c].resp.userFields \cap {"password", "refreshToken"} = {}

\* C15: a Register request in which username, email, fullname or password
\* is empty or only spaces is answered with ValidationError (400) in the
\* step that reads it, and the step adds no user record.
C15_BlankFieldIsRejected ==
    [][\A c \in Calls :
          ( /\ calls[c].pc = "idle"
            /\ calls'[c].op = "register"
            /\ BodyFields(calls'[c]) \cap {"", " "} # {} )
          => /\ calls'[c].pc = "done"
             /\ calls'[c].resp.status = 400
             /\ db' = db]_vars

C15_Witness ==
    \E c \in Calls :
        /\ Finished(c, "register")
        /\ calls[c].password = " "
        /\ calls[c].resp.status = 400
        /\ calls[c].uid = 0
        /\ db = << >>

\* C16: a Register request in which username, email, fullname or password
\* was not supplied is answered with ValidationError (400) in the step that
\* reads it, before a query is sent to the users collection and before
\* uploadOnCloudinary is called.
C16_AbsentFieldIsRejectedFirst ==
    [][\A c \in Calls :
          ( /\ calls[c].pc = "idle"
            /\ calls'[c].op = "register"
            /\ AbsentField \in BodyFields(calls'[c]) )
          => /\ calls'[c].pc = "done"
             /\ calls'[c].resp.status = 400
             /\ ~calls'[c].queried
             /\ ~calls'[c].uploaded]_vars

\* C17: a Register without an avatar file fails and creates no user
\* record, with ValidationError (400) when no user has its username or
\* email at its arrival; a Register with a complete body and an uploaded
\* avatar and without a cover image fails only when a user with its
\* username or email exists.
C17_AvatarRequiredCoverOptional ==
    \A c \in Calls :
        Finished(c, "register")
        => /\ calls[c].avatar \in {AbsentField, ""}
              => /\ calls[c].resp.status # 200
                 /\ calls[c].uid = 0
                 /\ "fresh" \in calls[c].tags => calls[c].resp.status = 400
           /\ ( /\ calls[c].coverimage = AbsentField
                /\ calls[c].uploaded /\ calls[c].avatarUrl # UploadNull
                /\ CompleteBody(calls[c])
                /\ calls[c].resp.status # 200 )
              => Taken(calls[c])

C17_Witness ==
    \E c1, c2 \in Calls :
        /\ Finished(c1, "register")
        /\ calls[c1].avatar = AbsentField /\ "fresh" \in calls[c1].tags
        /\ calls[c1].resp.status = 400
        /\ calls[c1].resp.message = "Avatar image is required"
        /\ Finished(c2, "register")
        /\ calls[c2].coverimage = AbsentField
        /\ calls[c2].resp.status = 200
        /\ Len(db) = 1 /\ db[1].coverimage = ""

\* C18: a Register with a complete body that arrives when a user holds its
\* email under another username, or its username under another email,
\* fails with Conflict (409) and creates no user record.
C18_SecondRegisterConflicts ==
    \A c \in Calls :
        ( /\ Finished(c, "register")
          /\ BodyFields(calls[c]) \cap {"", " "} = {}
          /\ calls[c].tags \cap {"username_taken", "email_taken"} # {} )
        => /\ calls[c].resp.status = 409
           /\ calls[c].uid = 0

C18_Witness ==
    \E c1, c2 \in Calls :
        /\ Finished(c1, "register") /\ "email_taken" \in calls[c1].tags
        /\ calls[c1].resp.status = 409
        /\ Finished(c2, "register") /\ "username_taken" \in calls[c2].tags
        /\ calls[c2].resp.status = 409
        /\ Len(db) = 1

\* C19: a Register with a complete body whose username or email differs
\* only in letter case from that of a user the store holds at its arrival
\* fails with Conflict (409).
C19_CaseVariantConflicts ==
    \A c \in Calls :
        ( /\ Finished(c, "register")
          /\ BodyFields(calls[c]) \cap {"", " "} = {}
          /\ "case_variant" \in calls[c].tags )
        => calls[c].resp.status = 409

C19_Witness ==
    \E c1, c2 \in Calls :
        /\ Finished(c1, "register") /\ "case_variant" \in calls[c1].tags
        /\ calls[c1].username = "AL" /\ calls[c1].resp.status = 409
        /\ Finished(c2, "register") /\ "case_variant" \in calls[c2].tags
        /\ calls[c2].email = "AL@X" /\ calls[c2].resp.status = 409

\* C20: in every reachable state no two user records have the same
\* lowercased username and no two have the same lowercased email.
C20_UniqueUsernameAndEmail ==
    \A i, j \in UserIds :
        i # j => /\ Lower(db[i].username) # Lower(db[j].username)
                 /\ Lower(db[i].email) # Lower(db[j].email)

C20_Witness ==
    \E c1, c2 \in Calls :
        /\ c1 # c2
        /\ Finished(c1, "register") /\ Finished(c2, "register")
        /\ "fresh" \in calls[c1].tags /\ "fresh" \in calls[c2].tags
        /\ Lower(calls[c1].username) = Lower(calls[c2].username)
        /\ calls[c1].resp.status = 200
        /\ calls[c2].resp.status = 400
        /\ calls[c2].resp.message = "Validation error while creating user"
        /\ Len(db) = 1

\* a user record has a value in every field the schema requires
CompleteRecord(doc) ==
    /\ {doc.username, doc.email, doc.fullname} \cap {AbsentField, "", " "} = {}
    /\ doc.avatar \notin {AbsentField, "", UploadNull}
    /\ doc.password.plain \notin {AbsentField, ""}
    /\ doc.password.rounds >= 1

C22_CreationFailureIsItsOwnKind ==
    \A c \in Calls :
        ( /\ Finished(c, "register")
          /\ CompleteBody(calls[c]) /\ "fresh" \in calls[c].tags
          /\ calls[c].uploaded /\ calls[c].avatarUrl # UploadNull
          /\ calls[c].resp.status # 200 )
        => /\ calls[c].resp.status # 400
           /\ ~calls[c].resp.hasUser

\* the stages of registerUser
StageOrder == <<"validate", "lookup", "avatar", "upload", "create">>

\* C30: the stages a Register has run are a prefix of validation, lookup,
\* avatar check, upload, creation; a Register that failed ran no stage
\* after the one that failed; a Register for an existing username with no
\* avatar fails with Conflict (409); and no upload was made for a request
\* that the validation, the existing-user check or the avatar check
\* rejected.
C30_RegisterStageOrder ==
    \A c \in Calls :
        calls[c].op = "register"
        => /\ calls[c].stages = SubSeq(StageOrder, 1, Len(calls[c].stages))
           /\ calls[c].uid # 0 => calls[c].stages = StageOrder
           /\ Finished(c, "register")
              => /\ BodyFields(calls[c]) \cap {"", " "} # {}
                    => calls[c].stages = <<"validate">>
                 /\ ( /\ BodyFields(calls[c]) \cap {"", " "} = {}
                      /\ "fresh" \notin calls[c].tags )
                    => /\ calls[c].resp.status = 409
                       /\ calls[c].stages = <<"validate", "lookup">>
                 /\ ( /\ BodyFields(calls[c]) \cap {"", " "} = {}
                      /\ "fresh" \in calls[c].tags
                      /\ calls[c].avatar \in {AbsentField, ""} )
                    => calls[c].stages = <<"validate", "lookup", "avatar">>
                 /\ calls[c].resp.message \in
                        { "FullName, username, email, and password are required",
                          "User with email or username already exists",
                          "Avatar image is required" }
                    => ~calls[c].uploaded

C30_Witness ==
    \E c \in Calls :
        /\ Finished(c, "register")
        /\ "username_taken" \in calls[c].tags
        /\ calls[c].avatar = AbsentField
        /\ calls[c].resp.status = 409
        /\ calls[c].stages = <<"validate", "lookup">>
        /\ ~calls[c].uploaded

----------------------------------------------------------------------------
(* Properties of the stored password and of the responses, checked under   *)
(* SessionSpec.                                                            *)

TokenCookies(cookies) ==
    \A n \in {"accessToken", "refreshToken"} :
        \E k \in cookies : k.name = n /\ k.httpOnly /\ k.secure

C25_TokenClaims ==
    /\ \A u \in UserIds :
           /\ JwtPayload(SignAccessToken(u, db[u])) =
                  [id |-> u, claims |-> {"_id", "email", "username"}]
           /\ JwtPayload(SignRefreshToken(u, db[u])) = [id |-> u, claims |-> {"_id"}]
    /\ \A c \in Calls :
           (Finished(c, "login") /\ calls[c].resp.status = 200)
           => /\ calls[c].resp.accessToken.t = "jwt"
              /\ calls[c].resp.accessToken.claims = {"_id", "email", "username"}
              /\ calls[c].resp.refreshToken.t = "jwt"
              /\ calls[c].resp.refreshToken.claims = {"_id"}

\* C26: the access token a successful Login got from generateAccessToken
\* verifies with the access secret, and verifying it gives back the payload
\* that was signed for the user.
C26_AccessTokenRoundTrip ==
    \A c \in Calls :
        (Finished(c, "login") /\ calls[c].resp.status = 200)
        => /\ JwtVerifies(calls[c].resp.accessToken, ACCESS_TOKEN_SECRET)
           /\ JwtPayload(calls[c].resp.accessToken) =
                  JwtPayload(SignAccessToken(calls[c].uid, db[calls[c].uid]))

----------------------------------------------------------------------------
(* Properties of failures, checked under FaultSpec.                        *)

\* C27: every request that ended in a failure ended in a typed failure, an
\* ApiError with an HTTP status and a message in words.
C27_FailuresAreTyped ==
    \A c \in Calls :
        (calls[c].pc = "done" /\ calls[c].resp.status # 200)
        => /\ calls[c].resp.typed
           /\ calls[c].resp.status \in 400..599
           /\ calls[c].resp.message \notin {"", "500"}

\* C28: a Login or a Refresh to which the store was unavailable fails with
\* a failure that is not NotFound (404), InvalidCredentials or
\* Unauthenticated (401), and has not changed the stored refresh token.
C28_StoreUnavailableIsDistinct ==
    \A c \in Calls :
        ( /\ calls[c].pc = "done" /\ calls[c].op \in {"login", "refresh"}
          /\ calls[c].storeDown )
        => /\ calls[c].resp.status \notin {200, 401, 404}
           /\ ~calls[c].wrote

----------------------------------------------------------------------------
(* Properties that need an access token presented to Refresh, checked      *)
(* under SessionSpec.                                                      *)

\* C31: a Refresh that is presented with an access token, even the valid,
\* unexpired access token of an existing user, fails with Unauthenticated
\* (401): it is turned away before the store is queried, no user is looked
\* up for it and nothing is generated for it.
C31_AccessTokenIsNoRefreshToken ==
    \A c \in Calls :
        (calls[c].op = "refresh" /\ JwtVerifies(calls[c].tok, ACCESS_TOKEN_SECRET))
        => /\ calls[c].pc = "done"
           /\ calls[c].resp.status = 401
           /\ ~calls[c].queried
           /\ calls[c].uid = 0
           /\ calls[c].resp.cookies = {}

C31_Witness ==
    \E c \in Calls :
        /\ Finished(c, "refresh")
        /\ calls[c].tok.t = "jwt"
        /\ calls[c].tok.s = ACCESS_TOKEN_SECRET
        /\ calls[c].tok.s # REFRESH_TOKEN_SECRET
        /\ calls[c].tok.id \in UserIds
        /\ calls[c].resp.status = 401

----------------------------------------------------------------------------
(* Properties of the stored record, checked under RegisterSpec.            *)

----------------------------------------------------------------------------
(* Properties of the session flow with two users, checked under            *)
(* TwoUserSpec.                                                            *)

\* the users a request is performed for: Login names its user, Logout is
\* performed for the user the auth middleware resolved, Refresh for the
\* user whose _id the presented token carries
PerformedFor(call) ==
    CASE call.op = "login" -> {i \in UserIds : db[i].username = call.username}
      [] call.op = "logout" -> {call.uid} \cap UserIds
      [] call.op = "refresh" -> {call.tok.id} \cap UserIds
      [] OTHER -> {}

\* the tokens a request has generated or returned
TokensOf(call) ==
    {t \in {call.accessToken, call.refreshToken,
            call.resp.accessToken, call.resp.refreshToken} : t.t = "jwt"}

\* C33: an operation performed for one user never changes another user's
\* record: every step of a Login, Refresh or Logout for user A leaves the
\* record of every other user B, its stored refresh token and password
\* hash included, as it was, and a Refresh that presents A's token never
\* generates for, or issues tokens carrying, the _id of B.
C33_OtherUsersUntouched ==
    [][\A c \in Calls :
         calls'[c] # calls[c] =>
            LET call == IF calls'[c] = Idle THEN calls[c] ELSE calls'[c]
            IN  /\ \A B \in UserIds \ PerformedFor(call) :
                       /\ db'[B].refreshToken = db[B].refreshToken
                       /\ db'[B].password = db[B].password
                       /\ db'[B] = db[B]
                /\ call.op = "refresh" =>
                       /\ call.uid \in {0} \cup PerformedFor(call)
                       /\ \A t \in TokensOf(call) : t.id \in PerformedFor(call)]_vars

C33_Witness ==
    \E c1, c2 \in Calls :
        /\ Finished(c1, "logout") /\ calls[c1].uid = 1
        /\ Finished(c2, "login") /\ calls[c2].username = "al"
        /\ calls[c2].resp.status = 200
        /\ db[1].password # TwoUserDocs[1].password
        /\ db[1].refreshToken # TwoUserDocs[1].refreshToken
        /\ db[2] = TwoUserDocs[2]
        /\ db[2].username = "bo"

----------------------------------------------------------------------------
(* Properties of process start, checked under StartupSpec.                 *)

\* C34: at process startup the HTTP server begins listening only after the
\* database connection has been established; if the connection attempt
\* fails, the process exits with code 1 and the server never starts
\* listening.
C34_ListensOnlyOnceConnected ==
    /\ proc.listened => proc.connect = "connected"
    /\ proc.connect = "failed" =>
           /\ proc.exited
           /\ proc.exitCode = 1
           /\ ~proc.listened

====
